---- MODULE Spec2Model ----
(***************************************************************************)
(* A model of the arena binary tree of src/src/binary_tree.rs.             *)
(*                                                                         *)
(* The tree is a Vec of nodes; a node is a record of its value, its own    *)
(* index and the indices of its left and right children (0: no child).     *)
(* Rust's Vec is indexed from 0 and a TLA+ sequence from 1, so the node at *)
(* TreeIndex i is tree[i + 1]; every index that appears in a node field,   *)
(* an argument or a result is the Rust index.                              *)
(*                                                                         *)
(* Every public method is one action.  An action records the call and its  *)
(* result in ret, the observation of the latest call.  print() is the one  *)
(* method with a loop: it is modelled one iteration of the while loop per  *)
(* step, and since it borrows the tree for its whole run no other method   *)
(* runs until it has returned.                                             *)
(***************************************************************************)
EXTENDS Integers, Sequences, FiniteSets, TLC

VARIABLES
    tree,     \* BinaryTree.tree: the Vec of nodes
    ret,      \* the latest call: its name, its arguments and what it returned
    pc,       \* "idle", or "print" while print() is inside its while loop
    stack,    \* print(): the local Vec of (deep, Option<&node>) pairs
    out,      \* print(): the lines written by the current or latest print()
    inserts,  \* number of add_root/add_left_node/add_right_node calls so far
    issued,   \* the indices those calls have returned
    attached, \* the <<parent, side>> pairs under which a child has been wired
    writes    \* number of writes made through a get_node_mut reference so far

vars == <<tree, ret, pc, stack, out, inserts, issued, attached, writes>>

\* Largest number of nodes inserted where every method is called (Spec).
MaxLen == 3

\* Largest number of nodes inserted where the tree is built and printed
\* (SpecPrint).
MaxPrintLen == 5

\* Largest number of writes the model makes through get_node_mut references.
MaxWrites == 1

\* Payloads (the type parameter T, opaque to the tree).  A node is inserted
\* with a payload of NewValues; a write through get_node_mut stores any
\* payload of Values, so a written payload can differ from every other one.
NewValues == {10}

Values == NewValues \cup {11}

----------------------------------------------------------------------------
(* Option<T> *)

None == [present |-> FALSE]

Some(x) == [present |-> TRUE, some |-> x]

(* BinaryTreeNode::new *)
BinaryTreeNode_new(value) ==
    [value |-> value, index |-> 0, left |-> 0, right |-> 0]

\* VecGet with the bound off by one: the last element is out of bounds.
VecGet_off_by_one(t, index) ==
    IF index + 1 < Len(t) THEN Some(t[index + 1]) ELSE None

(* Vec::get / Vec::get_mut: bounds-checked access by a 0-based index *)
VecGet(t, index) ==
    IF index < Len(t) THEN Some(t[index + 1]) ELSE None

----------------------------------------------------------------------------
(* The methods of BinaryTree as functions of the tree *)

new == <<>>

\* is_empty with the test negated.
is_empty_negated(t) == Len(t) # 0

is_empty(t) == Len(t) = 0

len(t) == Len(t)

get_root_index == 0

get_node(t, index) == VecGet(t, index)

get_left_child(t, node) ==
    IF node.left = 0 THEN None ELSE VecGet(t, node.left)

get_right_child(t, node) ==
    IF node.right = 0 THEN None ELSE VecGet(t, node.right)

\* add_node which wires a child whose parent is not stored under the root.
add_node_parent_defaults_to_root(t, parent, is_left, child) ==
    LET pushed   == Append(t, [child EXCEPT !.index = Len(t)])
        position == Len(pushed) - 1
        target   == IF VecGet(pushed, parent).present THEN parent ELSE 0
    IN  IF position = 0
        THEN [tree |-> pushed, position |-> position]
        ELSE IF is_left
             THEN [tree |-> [pushed EXCEPT ![target + 1].left = position],
                   position |-> position]
             ELSE [tree |-> [pushed EXCEPT ![target + 1].right = position],
                   position |-> position]

\* add_node which looks the parent up first and stores nothing under a
\* parent that is not there.
add_node_rejects_missing_parent(t, parent, is_left, child) ==
    LET pushed   == Append(t, [child EXCEPT !.index = Len(t)])
        position == Len(pushed) - 1
    IN  IF position = 0
        THEN [tree |-> pushed, position |-> position]
        ELSE IF VecGet(t, parent).present
             THEN IF is_left
                  THEN [tree |-> [pushed EXCEPT ![parent + 1].left = position],
                        position |-> position]
                  ELSE [tree |-> [pushed EXCEPT ![parent + 1].right = position],
                        position |-> position]
             ELSE [tree |-> t, position |-> Len(t)]

\* add_node which sets child.index after the push, to the new length.
add_node_index_after_push(t, parent, is_left, child) ==
    LET pushed   == Append(t, [child EXCEPT !.index = Len(t) + 1])
        position == Len(pushed) - 1
    IN  IF position = 0
        THEN [tree |-> pushed, position |-> position]
        ELSE IF VecGet(pushed, parent).present
             THEN IF is_left
                  THEN [tree |-> [pushed EXCEPT ![parent + 1].left = position],
                        position |-> position]
                  ELSE [tree |-> [pushed EXCEPT ![parent + 1].right = position],
                        position |-> position]
             ELSE [tree |-> pushed, position |-> position]

\* add_node which takes the length after the push for the position.
add_node_position_is_len(t, parent, is_left, child) ==
    LET pushed   == Append(t, [child EXCEPT !.index = Len(t)])
        position == Len(pushed)
    IN  IF position = 0
        THEN [tree |-> pushed, position |-> position]
        ELSE IF VecGet(pushed, parent).present
             THEN IF is_left
                  THEN [tree |-> [pushed EXCEPT ![parent + 1].left = position],
                        position |-> position]
                  ELSE [tree |-> [pushed EXCEPT ![parent + 1].right = position],
                        position |-> position]
             ELSE [tree |-> pushed, position |-> position]

\* add_node which writes the wrong variable into the left field: parent
\* for position.
add_node_left_is_parent(t, parent, is_left, child) ==
    LET pushed   == Append(t, [child EXCEPT !.index = Len(t)])
        position == Len(pushed) - 1
    IN  IF position = 0
        THEN [tree |-> pushed, position |-> position]
        ELSE IF VecGet(pushed, parent).present
             THEN IF is_left
                  THEN [tree |-> [pushed EXCEPT ![parent + 1].left = parent],
                        position |-> position]
                  ELSE [tree |-> [pushed EXCEPT ![parent + 1].right = position],
                        position |-> position]
             ELSE [tree |-> pushed, position |-> position]

\* add_node which leaves child.index as the caller passed it.
add_node_keeps_index(t, parent, is_left, child) ==
    LET pushed   == Append(t, child)
        position == Len(pushed) - 1
    IN  IF position = 0
        THEN [tree |-> pushed, position |-> position]
        ELSE IF VecGet(pushed, parent).present
             THEN IF is_left
                  THEN [tree |-> [pushed EXCEPT ![parent + 1].left = position],
                        position |-> position]
                  ELSE [tree |-> [pushed EXCEPT ![parent + 1].right = position],
                        position |-> position]
             ELSE [tree |-> pushed, position |-> position]

\* add_node without the else: both fields of the parent get the position.
add_node_sets_both_sides(t, parent, is_left, child) ==
    LET pushed   == Append(t, [child EXCEPT !.index = Len(t)])
        position == Len(pushed) - 1
    IN  IF position = 0
        THEN [tree |-> pushed, position |-> position]
        ELSE IF VecGet(pushed, parent).present
             THEN [tree |-> [pushed EXCEPT ![parent + 1].left = position,
                                           ![parent + 1].right = position],
                   position |-> position]
             ELSE [tree |-> pushed, position |-> position]

\* add_node which takes the position before the push: the index of the
\* node that was the last one.
add_node_position_before_push(t, parent, is_left, child) ==
    LET position == IF Len(t) = 0 THEN 0 ELSE Len(t) - 1
        pushed   == Append(t, [child EXCEPT !.index = Len(t)])
    IN  IF Len(t) = 0
        THEN [tree |-> pushed, position |-> position]
        ELSE IF VecGet(pushed, parent).present
             THEN IF is_left
                  THEN [tree |-> [pushed EXCEPT ![parent + 1].left = position],
                        position |-> position]
                  ELSE [tree |-> [pushed EXCEPT ![parent + 1].right = position],
                        position |-> position]
             ELSE [tree |-> pushed, position |-> position]

\* add_node which stores position + 1 in a link, so that no stored link is
\* 0, and does without the early return for the root.
add_node_one_based_links(t, parent, is_left, child) ==
    LET pushed   == Append(t, [child EXCEPT !.index = Len(t)])
        position == Len(pushed) - 1
    IN  IF VecGet(pushed, parent).present
        THEN IF is_left
             THEN [tree |-> [pushed EXCEPT ![parent + 1].left = position + 1],
                   position |-> position]
             ELSE [tree |-> [pushed EXCEPT ![parent + 1].right = position + 1],
                   position |-> position]
        ELSE [tree |-> pushed, position |-> position]

\* add_node which takes the child to follow its parent in the Vec: the
\* link it writes is parent + 1.
add_node_child_follows_parent(t, parent, is_left, child) ==
    LET pushed   == Append(t, [child EXCEPT !.index = Len(t)])
        position == Len(pushed) - 1
    IN  IF position = 0
        THEN [tree |-> pushed, position |-> position]
        ELSE IF VecGet(t, parent).present
             THEN IF is_left
                  THEN [tree |-> [pushed EXCEPT ![parent + 1].left = parent + 1],
                        position |-> position]
                  ELSE [tree |-> [pushed EXCEPT ![parent + 1].right = parent + 1],
                        position |-> position]
             ELSE [tree |-> pushed, position |-> position]

(* add_node: the tree after the call and the position it returns *)
add_node(t, parent, is_left, child) ==
    LET pushed   == Append(t, [child EXCEPT !.index = Len(t)])
        position == Len(pushed) - 1
    IN  IF position = 0
        THEN [tree |-> pushed, position |-> position]
        ELSE IF VecGet(pushed, parent).present
             THEN IF is_left
                  THEN [tree |-> [pushed EXCEPT ![parent + 1].left = position],
                        position |-> position]
                  ELSE [tree |-> [pushed EXCEPT ![parent + 1].right = position],
                        position |-> position]
             ELSE [tree |-> pushed, position |-> position]

(* add_root, add_left_node, add_right_node: thin wrappers of add_node *)
\* add_root which passes a parent that is never stored: no link is patched.
add_root_without_parent(t, root) == add_node(t, Len(t) + 1, FALSE, root)

add_root(t, root) == add_node(t, 0, FALSE, root)

\* add_left_node with the flag of add_right_node.
add_left_node_wires_right(t, parent, child) == add_node(t, parent, FALSE, child)

add_left_node(t, parent, child) == add_node(t, parent, TRUE, child)

add_right_node(t, parent, child) == add_node(t, parent, FALSE, child)

(* print: the stack as print() first fills it *)
print_start(t) == <<[deep |-> 0, node |-> get_node(t, get_root_index)]>>

(* print: one line of output.  The code writes 4 * deep spaces, "----" and  *)
(* the value; index is not written, it tells which node the line is of.     *)
Line(deep, node) == [deep |-> deep, value |-> node.value, index |-> node.index]

\* print_step which pushes the left child before the right one.
print_step_pushes_left_first(t, st, o) ==
    LET next == st[Len(st)]
        rest == SubSeq(st, 1, Len(st) - 1)
    IN  IF next.node.present
        THEN LET node == next.node.some
             IN  [stack |-> rest \o <<[deep |-> next.deep + 1,
                                       node |-> get_left_child(t, node)],
                                      [deep |-> next.deep + 1,
                                       node |-> get_right_child(t, node)]>>,
                  out   |-> Append(o, [deep |-> next.deep, value |-> node.value,
                                       index |-> node.index])]
        ELSE [stack |-> rest, out |-> o]

(* print: one iteration of the while loop, from (stack, out) to (stack, out) *)
print_step(t, st, o) ==
    LET next == st[Len(st)]
        rest == SubSeq(st, 1, Len(st) - 1)
    IN  IF next.node.present
        THEN LET node == next.node.some
             IN  [stack |-> rest \o <<[deep |-> next.deep + 1,
                                       node |-> get_right_child(t, node)],
                                      [deep |-> next.deep + 1,
                                       node |-> get_left_child(t, node)]>>,
                  out   |-> Append(o, Line(next.deep, node))]
        ELSE [stack |-> rest, out |-> o]

(* print: the while loop run to its end from (st, o), as many iterations    *)
(* as a tree of n nodes needs (a visited node is popped once and pushes two *)
(* entries, so 2 * n + 1 pops empty the stack); the lines written.          *)
RECURSIVE print_loop(_, _, _, _)
print_loop(t, st, o, fuel) ==
    IF st = <<>> \/ fuel = 0
    THEN [stack |-> st, out |-> o]
    ELSE LET s == print_step(t, st, o)
         IN  print_loop(t, s.stack, s.out, fuel - 1)

print(t) == print_loop(t, print_start(t), <<>>, 2 * Len(t) + 1)

----------------------------------------------------------------------------
(* The state machine *)

\* What a call leaves for its caller: op and the arguments arg (an index)
\* and val (a payload), and the result: pos (a TreeIndex or a length),
\* opt (an Option of a node) or flag (a bool), whichever the method returns.
Ret(op, arg, val, pos, opt, flag) ==
    [op |-> op, arg |-> arg, val |-> val, pos |-> pos, opt |-> opt, flag |-> flag]

Init ==
    /\ tree = new
    /\ ret = Ret("new", 0, 0, 0, None, FALSE)
    /\ pc = "idle"
    /\ stack = <<>>
    /\ out = <<>>
    /\ inserts = 0
    /\ issued = {}
    /\ attached = {}
    /\ writes = 0

\* Parent and lookup indices a caller may pass: every valid index, the
\* length itself and one index beyond it.
Indices == 0 .. (Len(tree) + 1)

\* The side an insertion wires: add_left_node the left one, add_right_node
\* and add_root the right one.
SideOf(op) == IF op = "add_left_node" THEN "left" ELSE "right"

\* An insertion.  attached gets <<parent, side>> when the call wires a link:
\* the tree was not empty and, after the push, parent names a node.
Insert(op, parent, value, added) ==
    /\ pc = "idle"
    /\ tree' = added.tree
    /\ ret' = Ret(op, parent, value, added.position, None, FALSE)
    /\ inserts' = inserts + 1
    /\ issued' = issued \cup {added.position}
    /\ attached' = IF ~is_empty(tree) /\ get_node(added.tree, parent).present
                   THEN attached \cup {<<parent, SideOf(op)>>}
                   ELSE attached
    /\ out' = <<>>
    /\ UNCHANGED <<pc, stack, writes>>

Query(r) ==
    /\ pc = "idle"
    /\ ret' = r
    /\ out' = <<>>
    /\ UNCHANGED <<tree, pc, stack, inserts, issued, attached, writes>>

AddRoot(value) ==
    Insert("add_root", 0, value, add_root(tree, BinaryTreeNode_new(value)))

AddLeftNode(parent, value) ==
    Insert("add_left_node", parent, value,
           add_left_node(tree, parent, BinaryTreeNode_new(value)))

AddRightNode(parent, value) ==
    Insert("add_right_node", parent, value,
           add_right_node(tree, parent, BinaryTreeNode_new(value)))

IsEmpty == Query(Ret("is_empty", 0, 0, 0, None, is_empty(tree)))

TreeLen == Query(Ret("len", 0, 0, len(tree), None, FALSE))

GetRootIndex == Query(Ret("get_root_index", 0, 0, get_root_index, None, FALSE))

GetNode(index) == Query(Ret("get_node", index, 0, 0, get_node(tree, index), FALSE))

\* get_node_mut which hands out a copy of the node: the write is lost.
GetNodeMut_on_a_copy(index, value) ==
    /\ pc = "idle"
    /\ get_node(tree, index).present => writes < MaxWrites
    /\ writes' = IF get_node(tree, index).present THEN writes + 1 ELSE writes
    /\ ret' = Ret("get_node_mut", index, value, 0,
                  IF get_node(tree, index).present
                  THEN Some([get_node(tree, index).some EXCEPT !.value = value])
                  ELSE None, FALSE)
    /\ out' = <<>>
    /\ UNCHANGED <<tree, pc, stack, inserts, issued, attached>>

\* get_node_mut, and the caller's write of value through the reference it
\* got; opt is the node as the reference shows it after the write.
GetNodeMut(index, value) ==
    /\ pc = "idle"
    /\ get_node(tree, index).present => writes < MaxWrites
    /\ tree' = IF get_node(tree, index).present
               THEN [tree EXCEPT ![index + 1].value = value]
               ELSE tree
    /\ writes' = IF get_node(tree, index).present THEN writes + 1 ELSE writes
    /\ ret' = Ret("get_node_mut", index, value, 0, get_node(tree', index), FALSE)
    /\ out' = <<>>
    /\ UNCHANGED <<pc, stack, inserts, issued, attached>>

\* get_left_child / get_right_child of the node stored at index
GetLeftChild(index) ==
    /\ index < Len(tree)
    /\ Query(Ret("get_left_child", index, 0, 0,
                 get_left_child(tree, tree[index + 1]), FALSE))

GetRightChild(index) ==
    /\ index < Len(tree)
    /\ Query(Ret("get_right_child", index, 0, 0,
                 get_right_child(tree, tree[index + 1]), FALSE))

PrintStart ==
    /\ pc = "idle"
    /\ pc' = "print"
    /\ stack' = print_start(tree)
    /\ out' = <<>>
    /\ ret' = Ret("print", 0, 0, 0, None, FALSE)
    /\ UNCHANGED <<tree, inserts, issued, attached, writes>>

PrintStep ==
    /\ pc = "print"
    /\ stack # <<>>
    /\ LET s == print_step(tree, stack, out)
       IN  stack' = s.stack /\ out' = s.out
    /\ UNCHANGED <<tree, ret, pc, inserts, issued, attached, writes>>

PrintReturn ==
    /\ pc = "print"
    /\ stack = <<>>
    /\ pc' = "idle"
    /\ UNCHANGED <<tree, ret, stack, out, inserts, issued, attached, writes>>

\* The tree has fewer than bound nodes: the model may insert one more.
MayGrow(bound) == Len(tree) < bound

Next ==
    \/ \E value \in NewValues : MayGrow(MaxLen) /\ AddRoot(value)
    \/ \E parent \in Indices, value \in NewValues :
          MayGrow(MaxLen) /\ AddLeftNode(parent, value)
    \/ \E parent \in Indices, value \in NewValues :
          MayGrow(MaxLen) /\ AddRightNode(parent, value)
    \/ IsEmpty
    \/ TreeLen
    \/ GetRootIndex
    \/ \E index \in Indices : GetNode(index)
    \/ \E index \in Indices, value \in Values : GetNodeMut(index, value)
    \/ \E index \in Indices : GetLeftChild(index)
    \/ \E index \in Indices : GetRightChild(index)
    \/ PrintStart
    \/ PrintStep
    \/ PrintReturn

Spec == Init /\ [][Next]_vars

\* A caller that only builds the tree and prints it.
NextPrint ==
    \/ \E value \in NewValues : MayGrow(MaxPrintLen) /\ AddRoot(value)
    \/ \E parent \in Indices, value \in NewValues :
          MayGrow(MaxPrintLen) /\ AddLeftNode(parent, value)
    \/ \E parent \in Indices, value \in NewValues :
          MayGrow(MaxPrintLen) /\ AddRightNode(parent, value)
    \/ PrintStart
    \/ PrintStep
    \/ PrintReturn

SpecPrint == Init /\ [][NextPrint]_vars

\* print() is straight sequential code: once called, its loop goes on to
\* the next iteration, and returns when the stack is empty, without waiting
\* for anything.
FairSpecPrint == SpecPrint /\ WF_vars(PrintStep) /\ WF_vars(PrintReturn)

----------------------------------------------------------------------------
(* Vocabulary of the properties *)

\* The node stored at TreeIndex i.
NodeAt(t, i) == t[i + 1]

\* The TreeIndexes of the stored nodes.
Stored(t) == 0 .. (Len(t) - 1)

\* Node i's link fields that refer to a child (0 refers to none).
Links(t, i) == {NodeAt(t, i).left, NodeAt(t, i).right} \ {0}

\* The nodes that navigation from index 0 arrives at: index 0 and whatever
\* is found by following non-zero links that resolve to a stored node.
RECURSIVE ReachFrom(_, _, _)
ReachFrom(t, S, n) ==
    IF n = 0
    THEN S
    ELSE ReachFrom(t, S \cup {c \in UNION {Links(t, i) : i \in S} : c \in Stored(t)},
                   n - 1)

Reachable(t) == IF t = <<>> THEN {} ELSE ReachFrom(t, {0}, Len(t))

\* The step is a call of the method op (every method records its name in
\* ret; the iterations of print() leave ret as PrintStart set it).
Step(op) == pc = "idle" /\ ret'.op = op

\* The step is add_left_node or add_right_node, with the arguments in ret'.
AddChildStep ==
    \/ Step("add_left_node") /\ AddLeftNode(ret'.arg, ret'.val)
    \/ Step("add_right_node") /\ AddRightNode(ret'.arg, ret'.val)

\* Node i's left and right fields are the same in u as in t.
SameLinks(t, u, i) ==
    /\ NodeAt(u, i).left = NodeAt(t, i).left
    /\ NodeAt(u, i).right = NodeAt(t, i).right

----------------------------------------------------------------------------
(* C1: a child added under a parent index that an earlier insertion        *)
(* returned is linked from that parent on the chosen side, holds the given *)
(* value, and its index is what the call returns.                          *)
C1_ChildLinkedUnderIssuedParent ==
    [][LET p == ret'.arg
           v == ret'.val
           i == ret'.pos
       IN  /\ Step("add_left_node") /\ AddLeftNode(p, v) /\ p \in issued =>
                /\ get_node(tree', p).present
                /\ get_node(tree', p).some.left = i
                /\ get_node(tree', i).present
                /\ get_node(tree', i).some.value = v
           /\ Step("add_right_node") /\ AddRightNode(p, v) /\ p \in issued =>
                /\ get_node(tree', p).present
                /\ get_node(tree', p).some.right = i
                /\ get_node(tree', i).present
                /\ get_node(tree', i).some.value = v]_vars

\* A right child has been added under a node other than the root.
C1_Witness ==
    /\ ret.op = "add_right_node"
    /\ ret.arg \in issued \ {0, ret.pos}
    /\ NodeAt(tree, ret.arg).right = ret.pos

(* C2 as claimed: add_root on a non-empty tree appends at the current      *)
(* length, changes no link field of a node that existed, and leaves the    *)
(* new node out of reach of navigation from the root.                      *)
C2_AddRootAppendsOrphan ==
    [][Step("add_root") /\ AddRoot(ret'.val) /\ ~is_empty(tree) =>
         /\ len(tree') = len(tree) + 1
         /\ ret'.pos = len(tree)
         /\ \A i \in Stored(tree) : SameLinks(tree, tree', i)
         /\ ret'.pos \notin Reachable(tree')]_vars

(* C2 as amended: add_root on a non-empty tree appends at the current      *)
(* length and sets the right field of the root (index 0) to the new        *)
(* position; every other link field of a node that existed is unchanged,   *)
(* and the new node is the root's right child, in reach of navigation.     *)
C2_AddRootBecomesRightChildOfRoot ==
    [][Step("add_root") /\ AddRoot(ret'.val) /\ ~is_empty(tree) =>
         /\ len(tree') = len(tree) + 1
         /\ ret'.pos = len(tree)
         /\ NodeAt(tree', 0).right = ret'.pos
         /\ NodeAt(tree', 0).left = NodeAt(tree, 0).left
         /\ \A i \in Stored(tree) \ {0} : SameLinks(tree, tree', i)
         /\ get_right_child(tree', NodeAt(tree', 0)) = Some(NodeAt(tree', ret'.pos))
         /\ ret'.pos \in Reachable(tree')]_vars

\* add_root has replaced the right child the root had.
C2_Witness ==
    /\ ret.op = "add_root"
    /\ ret.pos >= 2
    /\ NodeAt(tree, 0).right = ret.pos
    /\ \E i \in Stored(tree) \ {0, ret.pos} : i \notin Reachable(tree)

(* C3 as claimed: a node's left and right fields, if non-zero, are greater *)
(* than the node's own index, whatever parent indices were passed, and     *)
(* index 0 holds the first inserted node.                                  *)
C3_LinksPointToLaterNodes ==
    /\ \A i \in Stored(tree) : \A c \in Links(tree, i) : c > i
    /\ ~is_empty(tree) => NodeAt(tree, 0).index = 0

(* C4 as claimed: a child added under an out-of-range parent index         *)
(* (parent >= len() before the call) is appended and retrievable, and no   *)
(* link field of any node, the new one included, refers to it.             *)
C4_OutOfRangeParentMakesNoLink ==
    [][AddChildStep /\ ret'.arg >= len(tree) =>
         /\ get_node(tree', ret'.pos).present
         /\ get_node(tree', ret'.pos).some.value = ret'.val
         /\ \A i \in Stored(tree') : ret'.pos \notin Links(tree', i)]_vars

(* C5: a child added under an out-of-range parent index makes len() one    *)
(* more and changes no link field of a node that existed before the call.  *)
C5_OutOfRangeParentKeepsLinks ==
    [][AddChildStep /\ ret'.arg >= len(tree) =>
         /\ len(tree') = len(tree) + 1
         /\ \A i \in Stored(tree) : SameLinks(tree, tree', i)]_vars

\* A child has been added under a parent index beyond the end of a tree
\* whose root has children.
C5_Witness ==
    /\ ret.op \in {"add_left_node", "add_right_node"}
    /\ ret.arg > ret.pos
    /\ ret.pos >= 2
    /\ Links(tree, 0) # {}

(* C6: len() is the number of add_root/add_left_node/add_right_node calls  *)
(* made so far, whatever their parent indices; get_node and get_node_mut   *)
(* leave len() as it is.                                                   *)
C6_LenCountsInsertions ==
    /\ [](len(tree) = inserts)
    /\ [][(\/ Step("get_node") /\ GetNode(ret'.arg)
           \/ Step("get_node_mut") /\ GetNodeMut(ret'.arg, ret'.val))
          => len(tree') = len(tree)]_vars

\* Three insertions, one of them under a parent index that is not stored,
\* followed by a get_node_mut.
C6_Witness ==
    /\ inserts = 3
    /\ ret.op = "get_node_mut"
    /\ \E i \in Stored(tree) \ {0} : \A j \in Stored(tree) : i \notin Links(tree, j)

(* C7: add_root(v) on an empty tree returns 0 and leaves at index 0 a node *)
(* of value v with left = right = 0, get_root_index() being 0; and         *)
(* get_root_index() returns 0 in every state, the empty tree included.     *)
C7_AddRootOnEmptyTree ==
    /\ [](ret.op = "get_root_index" => ret.pos = 0)
    /\ [][Step("add_root") /\ AddRoot(ret'.val) /\ is_empty(tree) =>
            /\ ret'.pos = 0
            /\ get_root_index = ret'.pos
            /\ get_node(tree', 0) =
                  Some([value |-> ret'.val, index |-> 0, left |-> 0, right |-> 0])]_vars

\* get_root_index() has been called on a tree whose only node add_root put.
C7_Witness ==
    /\ ret.op = "get_root_index"
    /\ len(tree) = 1
    /\ inserts = 1

(* C8: for every stored node n, get_left_child(n) is absent exactly when   *)
(* n.left = 0 and is otherwise the node stored at index n.left; the same    *)
(* for get_right_child and n.right.  So a non-zero link is a stored index.  *)
C8_ChildAbsentIffLinkZero ==
    /\ \A i \in Stored(tree) :
         LET n == NodeAt(tree, i)
         IN  /\ get_left_child(tree, n).present <=> n.left # 0
             /\ n.left # 0 =>
                  /\ n.left < len(tree)
                  /\ get_left_child(tree, n) = Some(NodeAt(tree, n.left))
             /\ get_right_child(tree, n).present <=> n.right # 0
             /\ n.right # 0 =>
                  /\ n.right < len(tree)
                  /\ get_right_child(tree, n) = Some(NodeAt(tree, n.right))
    /\ ret.op = "get_left_child" =>
         (ret.opt.present <=> NodeAt(tree, ret.arg).left # 0)
    /\ ret.op = "get_right_child" =>
         (ret.opt.present <=> NodeAt(tree, ret.arg).right # 0)

\* get_left_child of a node other than the root has returned a node.
C8_Witness ==
    /\ ret.op = "get_left_child"
    /\ ret.arg > 0
    /\ ret.opt.present
    /\ ret.opt.some.index = NodeAt(tree, ret.arg).left

(* C9: get_node(i) and get_node_mut(i) return a node exactly when          *)
(* i < len(), and it is the node stored at i; otherwise they return absent *)
(* and change nothing.  On the empty tree they are absent for every index. *)
C9_LookupIsTotal ==
    /\ [](ret.op \in {"get_node", "get_node_mut"} =>
            /\ ret.opt.present <=> ret.arg < len(tree)
            /\ ret.opt.present =>
                 /\ ret.opt.some = NodeAt(tree, ret.arg)
                 /\ ret.opt.some.index = ret.arg
            /\ is_empty(tree) => ~ret.opt.present)
    /\ [][/\ Step("get_node") /\ GetNode(ret'.arg) =>
               UNCHANGED <<tree, pc, stack, inserts, issued, attached, writes>>
          /\ Step("get_node_mut") /\ GetNodeMut(ret'.arg, ret'.val)
                /\ ret'.arg >= len(tree) =>
               /\ ~ret'.opt.present
               /\ UNCHANGED <<tree, pc, stack, inserts, issued, attached, writes>>]_vars

\* get_node_mut has returned absent for the index just past the last node.
C9_Witness ==
    /\ ret.op = "get_node_mut"
    /\ ret.arg = len(tree)
    /\ len(tree) >= 2
    /\ ~ret.opt.present

----------------------------------------------------------------------------
(* Pre-order, as the standard defines it: the node, then the whole left    *)
(* subtree, then the whole right subtree, a child one level deeper than    *)
(* its parent.  fuel bounds the depth by the number of nodes.              *)
RECURSIVE PreOrder(_, _, _, _)
PreOrder(t, i, deep, fuel) ==
    IF fuel = 0 \/ i \notin Stored(t)
    THEN <<>>
    ELSE LET n == NodeAt(t, i)
         IN  <<Line(deep, n)>>
             \o (IF n.left # 0 THEN PreOrder(t, n.left, deep + 1, fuel - 1) ELSE <<>>)
             \o (IF n.right # 0 THEN PreOrder(t, n.right, deep + 1, fuel - 1) ELSE <<>>)

\* The nodes that are d links away from index 0.
RECURSIVE Level(_, _)
Level(t, d) ==
    IF d = 0
    THEN {0} \cap Stored(t)
    ELSE {c \in UNION {Links(t, i) : i \in Level(t, d - 1)} : c \in Stored(t)}

\* The tree of the documentation's example (and of the test doc_test_print).
DocTree ==
    LET root == add_root(new, BinaryTreeNode_new(10))
        n1   == add_left_node(root.tree, root.position, BinaryTreeNode_new(5))
        n2   == add_right_node(n1.tree, root.position, BinaryTreeNode_new(6))
        n3   == add_left_node(n2.tree, n2.position, BinaryTreeNode_new(7))
        n4   == add_right_node(n3.tree, n2.position, BinaryTreeNode_new(8))
        n5   == add_left_node(n4.tree, n1.position, BinaryTreeNode_new(9))
    IN  n5.tree

DocOutput ==
    <<[deep |-> 0, value |-> 10, index |-> 0],
      [deep |-> 1, value |-> 5,  index |-> 1],
      [deep |-> 2, value |-> 9,  index |-> 5],
      [deep |-> 1, value |-> 6,  index |-> 2],
      [deep |-> 2, value |-> 7,  index |-> 3],
      [deep |-> 2, value |-> 8,  index |-> 4]>>

\* print() has returned (no call has followed it).
Printed == ret.op = "print" /\ pc = "idle"

(* C10: when print() returns it has written exactly the nodes in reach of  *)
(* index 0, each once, in pre-order, each at the depth that is its number  *)
(* of links from the root; nothing for the empty tree; and for the tree of *)
(* the documentation's example 10, 5, 9, 6, 7, 8 at depths 0,1,2,1,2,2.    *)
C10_PrintIsPreOrder ==
    /\ Printed =>
         /\ out = PreOrder(tree, get_root_index, 0, len(tree))
         /\ {out[k].index : k \in DOMAIN out} = Reachable(tree)
         /\ \A j, k \in DOMAIN out : out[j].index = out[k].index => j = k
         /\ \A k \in DOMAIN out : out[k].index \in Level(tree, out[k].deep)
         /\ \A k \in DOMAIN out : out[k].value = NodeAt(tree, out[k].index).value
         /\ is_empty(tree) => out = <<>>
    /\ len(DocTree) = 6
    /\ print(DocTree).stack = <<>>
    /\ print(DocTree).out = DocOutput

\* print() has returned on a tree whose root has two children, the left one
\* with a child of its own: the grandchild is written before the right child.
C10_Witness ==
    /\ Printed
    /\ Len(out) = 4
    /\ [k \in 1..4 |-> out[k].deep] = <<0, 1, 2, 1>>
    /\ out[3].index > out[4].index

----------------------------------------------------------------------------
\* The nodes found by following one or more links from node i.
Descendants(t, i) ==
    ReachFrom(t, {c \in Links(t, i) : c \in Stored(t)}, Len(t))

(* C11: print() terminates on every tree that add_root, add_left_node and  *)
(* add_right_node can build, whatever the parent indices: once called it   *)
(* returns, having visited at most len() nodes, because no node in reach   *)
(* of index 0 is its own descendant.                                       *)
C11_PrintTerminates ==
    /\ [](\A i \in Reachable(tree) : i \notin Descendants(tree, i))
    /\ [](Len(out) <= len(tree))
    /\ [](print(tree).stack = <<>>)
    /\ (pc = "print") ~> (pc = "idle")

\* print() has returned on a tree that holds a node linked to itself (it was
\* added under a parent index equal to the length) and a second add_root.
C11_Witness ==
    /\ Printed
    /\ Len(out) >= 2
    /\ \E i \in Stored(tree) : i \in Links(tree, i)
    /\ \E i \in Stored(tree) \ {0} : i \notin Reachable(tree)

----------------------------------------------------------------------------
\* The step is a write of a value through get_node_mut(i) for a stored i.
WriteStep ==
    /\ Step("get_node_mut")
    /\ GetNodeMut(ret'.arg, ret'.val)
    /\ ret'.arg < len(tree)

(* C12: a value written through get_node_mut(i), i stored, is what         *)
(* get_node(i) reads from then on (until the next write), and the write    *)
(* changes nothing else: not len(), no node's index, left or right, and    *)
(* no other node's value.                                                  *)
C12_WriteIsVisibleAndLocal ==
    /\ [][WriteStep =>
            /\ get_node(tree', ret'.arg) =
                  Some([NodeAt(tree, ret'.arg) EXCEPT !.value = ret'.val])
            /\ len(tree') = len(tree)
            /\ \A j \in Stored(tree) \ {ret'.arg} : NodeAt(tree', j) = NodeAt(tree, j)
            /\ UNCHANGED <<pc, stack, inserts, issued, attached>>]_vars
    /\ [][tree' # tree /\ ~WriteStep =>
            \A j \in Stored(tree) : NodeAt(tree', j).value = NodeAt(tree, j).value]_vars
    /\ [](ret.op = "get_node" /\ ret.arg < len(tree) =>
            ret.opt = Some(NodeAt(tree, ret.arg)))

\* get_node reads a payload that only a write can have stored, from a node
\* other than the root, after the tree has grown since.
C12_Witness ==
    /\ ret.op = "get_node"
    /\ ret.arg = 1
    /\ len(tree) = 3
    /\ ret.opt.present
    /\ ret.opt.some.value = 11
    /\ NodeAt(tree, 0).value = 10

----------------------------------------------------------------------------
\* The step is add_root, add_left_node or add_right_node.
InsertStep ==
    \/ Step("add_root") /\ AddRoot(ret'.val)
    \/ AddChildStep

(* C13: the tree only grows.  Every insertion makes len() one more, no     *)
(* step makes it less, is_empty() is true exactly when len() = 0, and once *)
(* is_empty() is false it is false for ever.                               *)
C13_TreeOnlyGrows ==
    /\ [][InsertStep => len(tree') = len(tree) + 1]_vars
    /\ [][tree' # tree => len(tree') >= len(tree)]_vars
    /\ [](is_empty(tree) <=> len(tree) = 0)
    /\ [](ret.op = "is_empty" => (ret.flag <=> len(tree) = 0))
    /\ [][tree' # tree /\ ~is_empty(tree) => ~is_empty(tree')]_vars

\* is_empty() has said no on a tree of three nodes.
C13_Witness ==
    /\ ret.op = "is_empty"
    /\ ~ret.flag
    /\ len(tree) = 3

(* C14: the node stored at position i has index = i, whatever index it     *)
(* carried when it was passed in; an insertion returns what len() was      *)
(* before the call, which is the new node's index; and no later step       *)
(* changes a node's index.                                                 *)
C14_IndexIsPosition ==
    /\ [](\A i \in Stored(tree) : NodeAt(tree, i).index = i)
    /\ [][InsertStep =>
            /\ ret'.pos = len(tree)
            /\ get_node(tree', ret'.pos).present
            /\ get_node(tree', ret'.pos).some.index = ret'.pos]_vars
    /\ [][tree' # tree =>
            \A i \in Stored(tree) : NodeAt(tree', i).index = NodeAt(tree, i).index]_vars

\* A node passed in with index 0 (as BinaryTreeNode::new makes it) is stored
\* at position 2 under a parent that is not the root.
C14_Witness ==
    /\ ret.op = "add_left_node"
    /\ ret.arg = 1
    /\ ret.pos = 2
    /\ BinaryTreeNode_new(ret.val).index = 0
    /\ NodeAt(tree, 2).index = 2

----------------------------------------------------------------------------
\* The link fields, as <<index, side>>, of the nodes of t that differ in u.
ChangedLinks(t, u) ==
    {<<i, "left">> : i \in {j \in Stored(t) : NodeAt(u, j).left # NodeAt(t, j).left}}
    \cup
    {<<i, "right">> : i \in {j \in Stored(t) : NodeAt(u, j).right # NodeAt(t, j).right}}

(* C15: an insertion moves no node that existed and changes neither its   *)
(* value nor its index; of all the link fields of the nodes that existed   *)
(* at most one changes, the selected side of the addressed parent, and it  *)
(* becomes the new node's position.                                        *)
C15_InsertionIsAppendOnly ==
    [][InsertStep =>
         /\ SubSeq(tree', 1, Len(tree)) =
               [i \in 1..Len(tree) |->
                  [tree[i] EXCEPT !.left = tree'[i].left, !.right = tree'[i].right]]
         /\ \A i \in Stored(tree) :
              /\ NodeAt(tree', i).value = NodeAt(tree, i).value
              /\ NodeAt(tree', i).index = NodeAt(tree, i).index
         /\ Cardinality(ChangedLinks(tree, tree')) <= 1
         /\ \A c \in ChangedLinks(tree, tree') :
              /\ c = <<ret'.arg, SideOf(ret'.op)>>
              /\ (IF c[2] = "left" THEN NodeAt(tree', c[1]).left
                                   ELSE NodeAt(tree', c[1]).right) = ret'.pos]_vars

\* An insertion has replaced the left link of the root, whose former left
\* child holds a written payload.
C15_Witness ==
    /\ ret.op = "add_left_node"
    /\ ret.arg = 0
    /\ ret.pos = 2
    /\ NodeAt(tree, 0).left = 2
    /\ NodeAt(tree, 1).value = 11
    /\ \A j \in Stored(tree) : 1 \notin Links(tree, j)

----------------------------------------------------------------------------
\* The value of the side field of the node at i.
LinkAt(t, i, side) == IF side = "left" THEN NodeAt(t, i).left ELSE NodeAt(t, i).right

(* C16: the sentinel 0 is never a child reference.  No insertion writes 0  *)
(* into a left or right field; a stored node's link field is 0 exactly     *)
(* when no child has ever been wired on that side of that node; and no     *)
(* child is ever wired at position 0.                                      *)
C16_SentinelNeverCollides ==
    /\ [](\A i \in Stored(tree) : \A side \in {"left", "right"} :
            LinkAt(tree, i, side) = 0 <=> <<i, side>> \notin attached)
    /\ [](attached \subseteq Stored(tree) \X {"left", "right"})
    /\ [][tree' # tree =>
            \A c \in ChangedLinks(tree, tree') : LinkAt(tree', c[1], c[2]) # 0]_vars
    /\ [][InsertStep /\ attached' # attached => ret'.pos >= 1]_vars
    /\ [][InsertStep /\ is_empty(tree) =>
            /\ ret'.pos = 0
            /\ attached' = attached
            /\ Links(tree', 0) = {}]_vars

\* The root has a child on one side only, and a later node has one too.
C16_Witness ==
    /\ len(tree) = 3
    /\ NodeAt(tree, 0).left # 0
    /\ NodeAt(tree, 0).right = 0
    /\ <<0, "left">> \in attached
    /\ <<0, "right">> \notin attached
    /\ \E i \in Stored(tree) \ {0} : \E side \in {"left", "right"} : <<i, side>> \in attached

----------------------------------------------------------------------------
(* C17: on the empty tree add_left_node(p, n) and add_right_node(p, n) do  *)
(* what add_root(n) does, whatever p is: they return 0, len() becomes 1,   *)
(* the node is stored at index 0 and its left and right stay 0, also when  *)
(* p = 0.                                                                  *)
C17_FirstInsertionIsRoot ==
    [][AddChildStep /\ is_empty(tree) =>
         /\ ret'.pos = 0
         /\ len(tree') = 1
         /\ get_node(tree', get_root_index) =
               Some([value |-> ret'.val, index |-> 0, left |-> 0, right |-> 0])
         /\ tree' = add_root(tree, BinaryTreeNode_new(ret'.val)).tree
         /\ ret'.pos = add_root(tree, BinaryTreeNode_new(ret'.val)).position
         /\ attached' = attached]_vars

\* add_left_node(0, n) has been the first insertion.
C17_Witness ==
    /\ ret.op = "add_left_node"
    /\ ret.arg = 0
    /\ ret.pos = 0
    /\ len(tree) = 1

----------------------------------------------------------------------------
\* The link fields, as <<index, side>>, that hold the index c.
ParentsOf(t, c) ==
    {f \in Stored(t) \X {"left", "right"} : LinkAt(t, f[1], f[2]) = c}

(* C18: a node has at most one parent: a non-zero index is the value of at *)
(* most one link field of the whole tree, both sides of all nodes counted, *)
(* so the nodes in reach of index 0 form a binary tree in which no subtree *)
(* is shared: pre-order from index 0 meets each of them once.              *)
C18_AtMostOneParent ==
    /\ \A c \in Stored(tree) \ {0} : Cardinality(ParentsOf(tree, c)) <= 1
    /\ \A i \in Stored(tree) : Links(tree, i) \subseteq Stored(tree)
    /\ \A i \in Reachable(tree) : i \notin Descendants(tree, i)
    /\ Len(PreOrder(tree, get_root_index, 0, len(tree))) = Cardinality(Reachable(tree))

\* Five nodes: four in reach of the root, two levels deep, and one that an
\* insertion has cut off.
C18_Witness ==
    /\ len(tree) = 5
    /\ Cardinality(Reachable(tree)) = 4
    /\ Level(tree, 2) # {}
    /\ Cardinality(Links(tree, 0)) = 2
    /\ \E c \in Stored(tree) \ {0} : ParentsOf(tree, c) = {}

(* C19 as claimed: a child added on a side of a stored parent p that has a *)
(* child on that side replaces the link.  get_left_child(p) (or            *)
(* get_right_child(p)) is then the new node; the former child and its      *)
(* descendants stay in storage with every field as it was, counted by      *)
(* len() and found by get_node, but out of reach of p and not written by   *)
(* print().                                                                *)
C19_OverwrittenChildIsCutOff ==
    [][AddChildStep /\ ret'.arg < len(tree)
         /\ LinkAt(tree, ret'.arg, SideOf(ret'.op)) # 0 =>
         LET parent == ret'.arg
             side   == SideOf(ret'.op)
             former == LinkAt(tree, parent, side)
             cutoff == {former} \cup Descendants(tree, former)
             now    == NodeAt(tree', parent)
         IN  /\ (IF side = "left" THEN get_left_child(tree', now)
                                  ELSE get_right_child(tree', now))
                   = Some(NodeAt(tree', ret'.pos))
             /\ len(tree') = len(tree) + 1
             /\ \A d \in cutoff :
                  /\ get_node(tree', d) = Some(NodeAt(tree, d))
                  /\ d \notin Descendants(tree', parent)
                  /\ \A k \in DOMAIN print(tree').out :
                       print(tree').out[k].index # d]_vars

====
